---- MODULE Spec2Model ----
(***************************************************************************)
(* Model of lada/lib/degradation_utils.py: the two random parameter        *)
(* samplers (MosaicRandomDegradationParams, ...V2), the frame degraders,   *)
(* the in-memory video transcode and the two video pipelines.              *)
(*                                                                         *)
(* Conventions                                                             *)
(*  - Python's None is the empty tuple, a value v that may be None is <<v>>*)
(*  - a uniform draw in [0,1) is an integer number of hundredths, 0..99    *)
(*  - a generator is the stream of its future draws; a call consumes the   *)
(*    head of the stream                                                   *)
(*  - scale, sigma and jpeg_quality are fixed-point, in hundredths         *)
(***************************************************************************)
EXTENDS Integers, Sequences, FiniteSets, TLC

VARIABLES
    params,     \* the degradation params object, or NoParams
    sampled,    \* what the last constructor was given and what it drew
    seed,       \* the generator state random_utils.get_rngs(True) returns
    pc,         \* position of the pipeline call in progress
    imgs,       \* the frame list the pipeline was called with
    imgs_lq,    \* the pipeline's local list of degraded frames
    idx,        \* index of the per-frame loop
    result,     \* the returned frame list, None until the call returns
    error,      \* the exception the call raised, "" when none
    encoder,    \* configuration the encoder received in the last transcode
    log         \* the primitive operations executed by the call, in order

vars == <<params, sampled, seed, pc, imgs, imgs_lq, idx, result, error, encoder, log>>

----------------------------------------------------------------------------
(* Bounds *)

\* number of equidistant values a uniform draw takes besides the largest one
Levels == 2
\* longest frame list passed to a pipeline
MaxFrames == 2

----------------------------------------------------------------------------
(* Python values *)

None == << >>
Some(v) == <<v>>
\* Python truthiness of an int-or-None (if crf: / if bitrate:)
Truthy(x) == x # None /\ x[1] # 0

Min2(a, b) == IF a < b THEN a ELSE b
Max2(a, b) == IF a > b THEN a ELSE b

----------------------------------------------------------------------------
(* The two random sources (random.Random and numpy RandomState) *)

\* the values a uniform draw takes in the model, in hundredths
DrawValues == {(100 * i) \div Levels : i \in 0..(Levels - 1)} \cup {99}

\* rng_random.random() < p, p in hundredths
Below(u, p) == u < p
\* rng_random.choice(seq)
RandomChoice(seq, u) == seq[(u * Len(seq)) \div 100 + 1]
\* randint with the upper end included, as random.randint has it
NumpyRandintInclusive(low, high, u) == low + (u * (high - low + 1)) \div 100
\* rng_numpy.randint(low, high): low inclusive, high exclusive
NumpyRandint(low, high, u) == low + (u * (high - low)) \div 100
\* rng_numpy.uniform(low, high), all three in hundredths
NumpyUniform(low, high, u) == low + (u * (high - low)) \div 100
\* rng_numpy.choice(seq, p=probabilities), probabilities in hundredths
RECURSIVE WeightedIndex(_, _, _, _)
WeightedIndex(probabilities, u, i, acc) ==
    IF i = Len(probabilities) \/ u < acc + probabilities[i] THEN i
    ELSE WeightedIndex(probabilities, u, i + 1, acc + probabilities[i])
NumpyChoice(seq, probabilities, u) == seq[WeightedIndex(probabilities, u, 1, 0)]

\* draws MosaicRandomDegradationParams.__init__ makes at most from rng_random
V1RandomDraws == 6
\* draws MosaicRandomDegradationParams.__init__ makes from rng_numpy
V1NumpyDraws == 4
\* draws MosaicRandomDegradationParamsV2.__init__ makes from rng_random
V2RandomDraws == 4
\* draws MosaicRandomDegradationParamsV2.__init__ makes from rng_numpy
V2NumpyDraws == 3

\* the values the uniform() draw behind scale takes: both ends of its range
UniformValues == {0, 99}
\* the value the uniform() draws behind sigma and jpeg_quality take: the two
\* fields are only handed to the noise and JPEG primitives
MidValue == 50

Streams(n) == [1..n -> DrawValues]
\* the rng_numpy streams of the v1 constructor: three uniform() draws, one randint()
V1NumpyStreams ==
    {<<scale, MidValue, MidValue, bitrate>> : scale \in UniformValues, bitrate \in DrawValues}

----------------------------------------------------------------------------
(* MosaicRandomDegradationParams (v1) *)

V1Codecs == <<"libx264", "libx265", "libvpx-vp9", "mpeg4">>
V1BitrateRange(codec) ==
    CASE codec = "libx264" -> <<15000, 100000>>
      [] codec = "libx265" -> <<10000, 60000>>
      [] codec = "libvpx-vp9" -> <<10000, 60000>>
      [] codec = "mpeg4" -> <<15000, 100000>>

Toggles == [should_down_sample : BOOLEAN, should_add_noise : BOOLEAN,
            should_add_image_compression : BOOLEAN,
            should_add_video_compression : BOOLEAN, should_add_blur : BOOLEAN]

\* the draw alone decides the flag
AndDrawIgnoringToggle(requested, rs, pos, p) ==
    [value |-> Below(rs[pos + 1], p), pos |-> pos + 1]
\* `requested and rng_random.random() < p` with the generator at position pos:
\* Python's `and` does not evaluate the draw when requested is false
AndDraw(requested, rs, pos, p) ==
    IF requested THEN [value |-> Below(rs[pos + 1], p), pos |-> pos + 1]
    ELSE [value |-> FALSE, pos |-> pos]

\* the constructor, given the requested toggles and the two generators;
\* returns the object and how far each generator was advanced
V1Init(req, repeatable_random, rs, ns) ==
    LET down  == AndDraw(req.should_down_sample, rs, 0, 50)
        noise == AndDraw(req.should_add_noise, rs, down.pos, 30)
        jpeg  == AndDraw(req.should_add_image_compression, rs, noise.pos, 50)
        codec == RandomChoice(V1Codecs, rs[jpeg.pos + 1])
        video == AndDraw(req.should_add_video_compression, rs, jpeg.pos + 1, 50)
        blur  == AndDraw(req.should_add_blur, rs, video.pos, 50)
    IN  [obj |->
            [version |-> 1,
             should_down_sample |-> down.value,
             scale |-> NumpyUniform(50, 200, ns[1]),
             should_add_noise |-> noise.value,
             sigma |-> NumpyUniform(0, 200, ns[2]),
             repeatable_noise |-> repeatable_random,
             should_add_jpeg_compression |-> jpeg.value,
             jpeg_quality |-> NumpyUniform(7000, 9000, ns[3]),
             video_codec |-> codec,
             video_bitrate |-> Some(NumpyRandint(V1BitrateRange(codec)[1],
                                                 V1BitrateRange(codec)[2] + 1, ns[4])),
             should_add_video_compression |-> video.value,
             should_add_blur |-> blur.value],
         n_random |-> blur.pos,
         n_numpy |-> 4]

----------------------------------------------------------------------------
(* MosaicRandomDegradationParamsV2 *)

V2Codecs == <<"libx264", "libx265", "libvpx-vp9", "mpeg2video">>
V2CodecProbabilities == <<30, 30, 30, 10>>
V2ValueRange(codec) ==
    CASE codec = "libx264" -> <<16, 28>>
      [] codec = "libx265" -> <<20, 36>>
      [] codec = "libvpx-vp9" -> <<6000, 16000>>
      [] codec = "mpeg2video" -> <<18000, 40000>>

V2Init(rs, ns) ==
    LET codec == NumpyChoice(V2Codecs, V2CodecProbabilities, ns[1])
        value == NumpyRandint(V2ValueRange(codec)[1], V2ValueRange(codec)[2] + 1, ns[2])
        bitrate_codec == codec \in {"libvpx-vp9", "mpeg2video"}
    IN  [obj |->
            [version |-> 2,
             video_codec |-> codec,
             video_crf |-> IF bitrate_codec THEN None ELSE Some(value),
             video_bitrate |-> IF bitrate_codec THEN Some(value) ELSE None,
             should_add_video_compression |-> Below(rs[1], 90),
             blur_sigma |-> NumpyRandint(1, 4, ns[3]),
             should_add_blur |-> Below(rs[2], 30),
             should_add_noise |-> Below(rs[3], 20),
             should_run_video_compression_second_pass |-> Below(rs[4], 15)],
         n_random |-> 4,
         n_numpy |-> 3]

\* reinit_second_pass leaving video_bitrate as it was
ReinitObjectKeepingBitrate(p, u) ==
    [p EXCEPT !.video_codec = "libx264",
              !.video_crf = Some(NumpyRandint(24, 28, u)),
              !.should_add_blur = FALSE,
              !.should_add_noise = FALSE,
              !.should_run_video_compression_second_pass = FALSE]
\* reinit_second_pass, u the next draw of the object's own numpy generator
ReinitObject(p, u) ==
    [p EXCEPT !.video_codec = "libx264",
              !.video_crf = Some(NumpyRandint(24, 28, u)),
              !.video_bitrate = None,
              !.should_add_blur = FALSE,
              !.should_add_noise = FALSE,
              !.should_run_video_compression_second_pass = FALSE]

----------------------------------------------------------------------------
(* float32 arithmetic of apply_frame_degradation                           *)
(* A float32 is [m, k]: the value m / 2^k with a 24-bit mantissa m; every  *)
(* operation rounds to nearest, ties to even, as IEEE 754 does.            *)

MantissaBits == 24
PixelMax == 255

F32Zero == [m |-> 0, k |-> 0]
\* a value the model does not determine: the result of a lossy primitive
UnknownF32 == [m |-> -1, k |-> 0]
UnknownByte == -1

\* round-to-nearest-even decision: rem of a division by den, q the quotient
RoundsUp(q, rem, den) == 2 * rem > den \/ (2 * rem = den /\ q % 2 = 1)

\* binary long division of r / d until the quotient has 24 bits
RECURSIVE DivLoop(_, _, _, _)
DivLoop(q, r, d, k) ==
    IF q >= 2 ^ (MantissaBits - 1) THEN [q |-> q, r |-> r, k |-> k]
    ELSE DivLoop(2 * q + (IF 2 * r >= d THEN 1 ELSE 0), (2 * r) % d, d, k + 1)

\* float32(x) / d for integers 0 <= x, 0 < d < 2^8 (x is exact in float32)
F32Div(x, d) ==
    IF x = 0 THEN F32Zero
    ELSE LET l == DivLoop(x \div d, x % d, d, 0)
             m == IF RoundsUp(l.q, l.r, d) THEN l.q + 1 ELSE l.q
         IN  IF m = 2 ^ MantissaBits THEN [m |-> m \div 2, k |-> l.k - 1]
             ELSE [m |-> m, k |-> l.k]

\* f * c for an integer 0 < c < 2^8; the 32-bit product is kept as hi * 2^8 + lo
F32Mul(f, c) ==
    IF f.m = 0 THEN F32Zero
    ELSE LET hi == c * (f.m \div 256) + (c * (f.m % 256)) \div 256
             lo == (c * (f.m % 256)) % 256
         IN  IF hi >= 2 ^ (MantissaBits - 1)
             THEN [m |-> IF RoundsUp(hi, lo, 256) THEN hi + 1 ELSE hi, k |-> f.k - 8]
             ELSE LET q == 2 * hi + lo \div 128
                  IN  [m |-> IF RoundsUp(q, lo % 128, 128) THEN q + 1 ELSE q,
                       k |-> f.k - 7]

\* astype(np.uint8) of a float in [0, 256): truncation
F32ToUint8(f) == IF f.k >= 0 THEN f.m \div (2 ^ f.k) ELSE f.m * (2 ^ (0 - f.k))

\* normalisation by 256 instead of 255
ToFloatBy256(v) == IF v = UnknownByte THEN UnknownF32 ELSE F32Div(v, PixelMax + 1)
\* float32(v) / 255. for every 8-bit value v
Normalized == [v \in 0..PixelMax |-> F32Div(v, PixelMax)]
\* img.astype(np.float32) / 255. on one pixel
ToFloat(v) == IF v = UnknownByte THEN UnknownF32 ELSE Normalized[v]
\* (img_lq * 255.).astype(np.uint8) on one pixel
ToByte(f) == IF f = UnknownF32 THEN UnknownByte ELSE F32ToUint8(F32Mul(f, PixelMax))

----------------------------------------------------------------------------
(* Frames                                                                  *)
(* A frame is [src, h, w, pix]: src the position it had in the input list, *)
(* h and w its shape, pix its content as the value each input pixel value  *)
(* has become (the input frame holds every value of Pixels once).          *)

\* the 8-bit pixel values
Pixels == 0..PixelMax
\* the shapes of the input frames: no padding needed, padding needed with the
\* larger side 256, padding needed with the larger side not 256
FrameShapes == {<<256, 256>>, <<256, 143>>, <<257, 255>>}

InputFrame(i, shape) == [src |-> i, h |-> shape[1], w |-> shape[2], pix |-> [v \in Pixels |-> v]]
InputLists == {[i \in 1..n |-> InputFrame(i, shape)] : n \in 0..MaxFrames, shape \in FrameShapes}

\* the content after a lossy primitive (cv2.filter2D, cv2.resize, noise, JPEG,
\* GaussianBlur, a codec): no pixel is determined
LossyBytes(pix) == [v \in DOMAIN pix |-> UnknownByte]
LossyFloats(pix) == [v \in DOMAIN pix |-> UnknownF32]

Event(op, frame) == [op |-> op, frame |-> frame]

----------------------------------------------------------------------------
(* apply_frame_degradation and apply_frame_degradation_v2 *)

\* int(x // scale) for an int x and the float scale, scale in hundredths
FloorDivScale(x, scale) == (100 * x) \div scale

\* one step of the frame degrader: `st` is [h, w, pix, ops], the shape and
\* content of img_lq and the primitives run so far
Step(enabled, st, op, h, w) ==
    IF enabled
    THEN [h |-> h, w |-> w, pix |-> LossyFloats(st.pix), ops |-> Append(st.ops, op)]
    ELSE st

\* returns the degraded frame and the primitives that ran, in order
apply_frame_degradation(img, p) ==
    LET s0 == [h |-> img.h, w |-> img.w, pix |-> [v \in DOMAIN img.pix |-> ToFloat(img.pix[v])],
               ops |-> << >>]
        s1 == Step(p.should_add_blur, s0, "blur", s0.h, s0.w)
        s2 == Step(p.should_down_sample, s1, "downsample",
                   FloorDivScale(img.h, p.scale), FloorDivScale(img.w, p.scale))
        s3 == Step(p.should_add_noise, s2, "noise", s2.h, s2.w)
        s4 == Step(p.should_add_jpeg_compression, s3, "jpeg", s3.h, s3.w)
        s5 == Step(p.should_down_sample, s4, "upsample", img.h, img.w)
    IN  [frame |-> [src |-> img.src, h |-> s5.h, w |-> s5.w,
                    pix |-> [v \in DOMAIN s5.pix |-> ToByte(s5.pix[v])]],
         ops |-> s5.ops]

StepV2(enabled, st, op) ==
    IF enabled
    THEN [frame |-> [st.frame EXCEPT !.pix = LossyBytes(st.frame.pix)], ops |-> Append(st.ops, op)]
    ELSE st

apply_frame_degradation_v2(img, p) ==
    LET s0 == [frame |-> img, ops |-> << >>]
        s1 == StepV2(p.should_add_blur, s0, "blur")
    IN  StepV2(p.should_add_noise, s1, "noise")

----------------------------------------------------------------------------
(* The video transcode *)

\* the multiple the codecs need both sides of a frame to be
PadMultiple == 4
PadUp(x) == ((x + PadMultiple - 1) \div PadMultiple) * PadMultiple
\* video_utils.pad_to_compatible_size_for_video_codecs
pad_to_compatible_size_for_video_codecs(frames) ==
    [i \in 1..Len(frames) |-> [frames[i] EXCEPT !.h = PadUp(frames[i].h), !.w = PadUp(frames[i].w)]]

\* what the encoder is configured with: the options dictionary and the stream
EncoderConfig(frames, codec, bitrate, crf) ==
    [configured |-> TRUE,
     codec |-> codec,
     crf |-> IF Truthy(crf) THEN crf ELSE None,
     x265_params |-> codec = "libx265",
     preset |-> codec = "libx264" \/ codec = "libx265",
     height |-> frames[1].h,
     width |-> frames[1].w,
     bit_rate |-> IF Truthy(bitrate) THEN bitrate ELSE None]

\* _apply_video_compression when the decoder reconstructs n_decoded frames:
\* every decoded frame has the stream's shape
DecodedFrames(frames, cfg, n_decoded) ==
    [i \in 1..n_decoded |-> [src |-> frames[i].src, h |-> cfg.height, w |-> cfg.width,
                             pix |-> LossyBytes(frames[i].pix)]]

\* img[0:h, 0:w, :]
Crop(frame, h, w) == [frame EXCEPT !.h = Min2(frame.h, h), !.w = Min2(frame.w, w)]

\* apply_video_compression on a non-empty list
apply_video_compression(frames, codec, bitrate, crf, n_decoded) ==
    LET padded == pad_to_compatible_size_for_video_codecs(frames)
        h == padded[1].h
        w == padded[1].w
        cfg == EncoderConfig(padded, codec, bitrate, crf)
        degraded_imgs == DecodedFrames(padded, cfg, n_decoded)
    IN  [frames |-> [i \in 1..Len(degraded_imgs) |-> Crop(degraded_imgs[i], h, w)],
         encoder |-> cfg]

----------------------------------------------------------------------------
(* State *)

NoParams == [version |-> 0]
NoSample == [ctor |-> "none"]
NoSeed == [random |-> << >>, numpy |-> << >>]
NoEncoder == [configured |-> FALSE]

Idle ==
    /\ pc = "idle" /\ imgs = << >> /\ imgs_lq = << >> /\ idx = 0
    /\ result = None /\ error = "" /\ encoder = NoEncoder /\ log = << >>

Init ==
    /\ params = NoParams /\ sampled = NoSample /\ seed = NoSeed
    /\ Idle

PipelineUnchanged == UNCHANGED <<pc, imgs, imgs_lq, idx, result, error, encoder, log>>

Prefix(s, n) == [i \in 1..n |-> s[i]]

----------------------------------------------------------------------------
(* The parameter samplers *)

\* random_utils.get_rngs(repeatable_random): the generators a constructor may be
\* handed; the repeatable ones always start from the state `seed`
get_rngs(repeatable_random) ==
    IF repeatable_random
    THEN [random |-> {seed.random}, numpy |-> {seed.numpy}]
    ELSE [random |-> Streams(V1RandomDraws), numpy |-> V1NumpyStreams]

\* MosaicRandomDegradationParams(**req, repeatable_random=repeatable_random)
NewParamsV1(repeatable_random) ==
    /\ pc = "idle" /\ params = NoParams
    /\ \E req \in Toggles, rs \in get_rngs(repeatable_random).random,
          ns \in get_rngs(repeatable_random).numpy :
        LET r == V1Init(req, repeatable_random, rs, ns) IN
        /\ params' = r.obj
        /\ sampled' = [ctor |-> "v1", requested |-> req,
                        random_draws |-> Prefix(rs, r.n_random),
                        numpy_draws |-> Prefix(ns, r.n_numpy)]
    /\ UNCHANGED seed
    /\ PipelineUnchanged

\* MosaicRandomDegradationParamsV2()
NewParamsV2 ==
    /\ pc = "idle" /\ params = NoParams
    /\ \E rs \in Streams(V2RandomDraws), ns \in Streams(V2NumpyDraws) :
        LET r == V2Init(rs, ns) IN
        /\ params' = r.obj
        /\ sampled' = [ctor |-> "v2",
                        random_draws |-> Prefix(rs, r.n_random),
                        numpy_draws |-> Prefix(ns, r.n_numpy)]
    /\ UNCHANGED seed
    /\ PipelineUnchanged

\* params.reinit_second_pass(); the draw comes from the generator the object kept
ReinitSecondPass ==
    /\ pc = "idle" /\ params.version = 2
    /\ \E u \in DrawValues :
        /\ params' = ReinitObject(params, u)
        /\ sampled' = [ctor |-> "reinit_second_pass", before |-> params,
                        numpy_draws |-> <<u>>]
    /\ UNCHANGED seed
    /\ PipelineUnchanged

\* the object is dropped after use
Discard ==
    /\ pc = "idle" /\ params # NoParams
    /\ params' = NoParams /\ sampled' = NoSample
    /\ UNCHANGED seed
    /\ PipelineUnchanged

----------------------------------------------------------------------------
(* apply_video_degradation (v1) *)

Raise(exception) ==
    /\ pc' = "raised" /\ error' = exception
    /\ UNCHANGED <<imgs, imgs_lq, idx, result, encoder, log>>

\* the call: imgs_lq = []
CallV1 ==
    /\ pc = "idle" /\ params.version = 1
    /\ \E frames \in InputLists : imgs' = frames
    /\ pc' = "v1_loop" /\ imgs_lq' = << >> /\ idx' = 0
    /\ sampled' = NoSample
    /\ UNCHANGED <<params, seed, result, error, encoder, log>>

\* one iteration of `for img in imgs`
V1Frame ==
    /\ pc = "v1_loop" /\ idx < Len(imgs)
    /\ LET d == apply_frame_degradation(imgs[idx + 1], params) IN
        /\ imgs_lq' = Append(imgs_lq, d.frame)
        /\ log' = log \o <<Event("apply_frame_degradation", idx + 1)>>
                      \o [j \in 1..Len(d.ops) |-> Event(d.ops[j], idx + 1)]
    /\ idx' = idx + 1
    /\ UNCHANGED <<params, sampled, seed, pc, imgs, result, error, encoder>>

\* `imgs_lq = apply_video_compression(imgs_lq, video_codec, video_bitrate)`,
\* the decoder reconstructing any number of the frames
V1Compress ==
    /\ pc = "v1_loop" /\ idx = Len(imgs) /\ params.should_add_video_compression
    /\ IF imgs_lq = << >>
       THEN Raise("IndexError") /\ UNCHANGED <<params, sampled, seed>>
       ELSE /\ \E n_decoded \in 0..Len(imgs_lq) :
                LET c == apply_video_compression(imgs_lq, params.video_codec,
                                                 params.video_bitrate, None, n_decoded) IN
                /\ imgs_lq' = c.frames
                /\ encoder' = c.encoder
            /\ log' = log \o <<Event("pad", 0), Event("transcode", 0), Event("crop", 0)>>
            /\ pc' = "v1_return"
            /\ UNCHANGED <<params, sampled, seed, imgs, idx, result, error>>

\* `return imgs_lq`
V1Return ==
    /\ \/ pc = "v1_loop" /\ idx = Len(imgs) /\ ~params.should_add_video_compression
       \/ pc = "v1_return"
    /\ result' = Some(imgs_lq)
    /\ pc' = "returned"
    /\ UNCHANGED <<params, sampled, seed, imgs, imgs_lq, idx, error, encoder, log>>

----------------------------------------------------------------------------
(* apply_video_degradation_v2 *)

CallV2 ==
    /\ pc = "idle" /\ params.version = 2
    /\ \E frames \in InputLists : imgs' = frames
    /\ pc' = "v2_assert" /\ imgs_lq' = << >> /\ idx' = 0
    /\ sampled' = NoSample
    /\ UNCHANGED <<params, seed, result, error, encoder, log>>

\* the assertion with >= for ==
WorkingResolutionAtLeast(frames) == Max2(frames[1].h, frames[1].w) >= 256
\* the asserted condition, max(imgs[0].shape[:2]) == 256
WorkingResolution(frames) == Max2(frames[1].h, frames[1].w) = 256

\* `assert max(imgs[0].shape[:2]) == 256`
V2Assert ==
    /\ pc = "v2_assert"
    /\ IF imgs = << >> THEN Raise("IndexError")
       ELSE IF ~WorkingResolution(imgs) THEN Raise("AssertionError")
       ELSE /\ pc' = "v2_compress"
            /\ UNCHANGED <<imgs, imgs_lq, idx, result, error, encoder, log>>
    /\ UNCHANGED <<params, sampled, seed>>

\* the transcode run only when should_add_video_compression is set
V2CompressWhenRequested ==
    /\ pc = "v2_compress"
    /\ IF params.should_add_video_compression
       THEN /\ \E n_decoded \in 0..Len(imgs) :
                LET c == apply_video_compression(imgs, params.video_codec,
                                                 params.video_bitrate, None, n_decoded) IN
                /\ imgs_lq' = c.frames
                /\ encoder' = c.encoder
            /\ log' = log \o <<Event("pad", 0), Event("transcode", 0), Event("crop", 0)>>
       ELSE imgs_lq' = imgs /\ UNCHANGED <<encoder, log>>
    /\ pc' = "v2_loop" /\ idx' = 0
    /\ UNCHANGED <<params, sampled, seed, imgs, result, error>>

\* `imgs_lq = apply_video_compression(imgs, video_codec, video_bitrate)`
V2Compress ==
    /\ pc = "v2_compress"
    /\ \E n_decoded \in 0..Len(imgs) :
        LET c == apply_video_compression(imgs, params.video_codec,
                                         params.video_bitrate, None, n_decoded) IN
        /\ imgs_lq' = c.frames
        /\ encoder' = c.encoder
    /\ log' = log \o <<Event("pad", 0), Event("transcode", 0), Event("crop", 0)>>
    /\ pc' = "v2_loop" /\ idx' = 0
    /\ UNCHANGED <<params, sampled, seed, imgs, result, error>>

\* one iteration of `for i, img in enumerate(imgs_lq)`
V2Frame ==
    /\ pc = "v2_loop" /\ idx < Len(imgs_lq)
    /\ LET d == apply_frame_degradation_v2(imgs_lq[idx + 1], params) IN
        /\ imgs_lq' = [imgs_lq EXCEPT ![idx + 1] = d.frame]
        /\ log' = log \o <<Event("apply_frame_degradation_v2", idx + 1)>>
                      \o [j \in 1..Len(d.ops) |-> Event(d.ops[j], idx + 1)]
    /\ idx' = idx + 1
    /\ UNCHANGED <<params, sampled, seed, pc, imgs, result, error, encoder>>

V2Return ==
    /\ pc = "v2_loop" /\ idx = Len(imgs_lq)
    /\ result' = Some(imgs_lq)
    /\ pc' = "returned"
    /\ UNCHANGED <<params, sampled, seed, imgs, imgs_lq, idx, error, encoder, log>>

\* the caller takes the frames, or the exception, and the call is over
Finish ==
    /\ pc \in {"returned", "raised"}
    /\ pc' = "idle" /\ imgs' = << >> /\ imgs_lq' = << >> /\ idx' = 0
    /\ result' = None /\ error' = "" /\ encoder' = NoEncoder /\ log' = << >>
    /\ UNCHANGED <<params, sampled, seed>>

----------------------------------------------------------------------------
(* Specifications *)

Next ==
    \/ NewParamsV1(FALSE)
    \/ NewParamsV2
    \/ ReinitSecondPass
    \/ Discard
    \/ CallV1 \/ V1Frame \/ V1Compress \/ V1Return
    \/ CallV2 \/ V2Assert \/ V2Compress \/ V2Frame \/ V2Return
    \/ Finish

Spec == Init /\ [][Next]_vars

\* the constructor run again and again with repeatable_random=True, from one seed
InitSeeded ==
    /\ params = NoParams /\ sampled = NoSample
    /\ seed \in [random : Streams(V1RandomDraws), numpy : V1NumpyStreams]
    /\ Idle

NextSeeded ==
    \/ NewParamsV1(TRUE)
    \/ Discard

SpecSeeded == InitSeeded /\ [][NextSeeded]_vars

----------------------------------------------------------------------------
(* Properties *)

Returned == pc = "returned"
InV1Call == params.version = 1 /\ pc # "idle"
InV2Call == params.version = 2 /\ pc # "idle"

FrameOps == {"apply_frame_degradation", "apply_frame_degradation_v2",
             "blur", "downsample", "noise", "jpeg", "upsample"}
TranscodeOps == {"pad", "transcode", "crop"}
Ran(ops) == \E i \in 1..Len(log) : log[i].op \in ops
Count(op) == Cardinality({i \in 1..Len(log) : log[i].op = op})

\* C1: every frame a pipeline returns has the height and width the input
\* frames had before padding.
C1_ReturnedFramesKeepInputShape ==
    Returned =>
        \A i \in 1..Len(result[1]) :
            result[1][i].h = imgs[1].h /\ result[1][i].w = imgs[1].w

\* C2: a pipeline that returns, returns as many frames as it was given, in the
\* same order, whatever number of frames the decoder reconstructed.
C2_ReturnedFramesMatchInputList ==
    Returned =>
        /\ Len(result[1]) = Len(imgs)
        /\ \A i \in 1..Len(result[1]) : result[1][i].src = i

C4_ReinitSecondPassResult ==
    sampled.ctor = "reinit_second_pass" =>
        /\ params.video_codec = "libx264"
        /\ params.video_bitrate = None
        /\ params.video_crf # None
        /\ 24 <= params.video_crf[1] /\ params.video_crf[1] < 28
        /\ ~params.should_add_blur
        /\ ~params.should_add_noise
        /\ ~params.should_run_video_compression_second_pass
        /\ params.should_add_video_compression = sampled.before.should_add_video_compression
        /\ params.blur_sigma = sampled.before.blur_sigma

\* reinit_second_pass run on an object that had blur, noise and the second pass
\* set and video compression unset, drawing the largest crf
C4_Witness ==
    /\ sampled.ctor = "reinit_second_pass"
    /\ sampled.before.should_add_blur
    /\ sampled.before.should_add_noise
    /\ sampled.before.should_run_video_compression_second_pass
    /\ ~sampled.before.should_add_video_compression
    /\ sampled.before.blur_sigma = 3
    /\ params.video_crf = Some(27)

\* the draw rng_random.random() returned for the k-th toggle of the constructor,
\* counted among the draws the constructor made: one per requested toggle
\* before it, and the codec choice once the first three toggles are past
ToggleOrder ==
    <<"should_down_sample", "should_add_noise", "should_add_image_compression",
      "should_add_video_compression", "should_add_blur">>
DrawOf(k) ==
    sampled.random_draws[
        Cardinality({j \in 1..(k - 1) : sampled.requested[ToggleOrder[j]]})
        + (IF k > 3 THEN 1 ELSE 0) + 1]
Probability == <<50, 30, 50, 50, 50>>
FlagOf(k) ==
    CASE k = 1 -> params.should_down_sample
      [] k = 2 -> params.should_add_noise
      [] k = 3 -> params.should_add_jpeg_compression
      [] k = 4 -> params.should_add_video_compression
      [] k = 5 -> params.should_add_blur

\* C5: each flag of a constructed v1 object is its requested toggle AND its
\* Bernoulli draw; no flag is true whose toggle was not requested.
C5_FlagIsToggleAndDraw ==
    sampled.ctor = "v1" =>
        \A k \in 1..5 :
            FlagOf(k) = (sampled.requested[ToggleOrder[k]] /\ DrawOf(k) < Probability[k])

\* a construction with some toggles requested and some not, where a requested
\* toggle's draw fails and another's succeeds
C5_Witness ==
    /\ sampled.ctor = "v1"
    /\ sampled.requested.should_down_sample /\ ~params.should_down_sample
    /\ ~sampled.requested.should_add_noise
    /\ sampled.requested.should_add_blur /\ params.should_add_blur

\* C6: apply_video_degradation_v2 on frames whose larger side is not 256 stops
\* at the assertion: nothing is padded, transcoded or degraded, no frame is
\* returned, and the exception is an AssertionError.
C6_AssertionBeforeAnyWork ==
    (InV2Call /\ imgs # << >> /\ Max2(imgs[1].h, imgs[1].w) # 256) =>
        /\ pc \in {"v2_assert", "raised"}
        /\ pc = "raised" => error = "AssertionError"
        /\ log = << >> /\ imgs_lq = << >> /\ encoder = NoEncoder /\ result = None

C6_Witness ==
    /\ InV2Call /\ pc = "raised" /\ error = "AssertionError"
    /\ Len(imgs) = 2 /\ imgs[1].h = 257

\* C7: whenever a pipeline ran the transcode, the encoder got exactly one of
\* crf and bit_rate, and it is the one the params object holds.
C7_EncoderGetsTheSampledQuality ==
    encoder # NoEncoder =>
        /\ (encoder.crf # None) # (encoder.bit_rate # None)
        /\ params.video_bitrate # None => encoder.bit_rate = params.video_bitrate
        /\ (params.version = 2 /\ params.video_crf # None) => encoder.crf = params.video_crf

\* C8: in v1 every frame is degraded before the transcode, which runs only when
\* should_add_video_compression is set; in v2 the transcode runs first, whatever
\* should_add_video_compression is, and every decoded frame is degraded after it.
C8_StageOrder ==
    /\ \A i, j \in 1..Len(log) :
        (log[i].op \in TranscodeOps /\ log[j].op \in FrameOps) =>
            IF params.version = 1 THEN j < i ELSE i < j
    /\ (InV1Call /\ Ran(TranscodeOps)) =>
        /\ params.should_add_video_compression
        /\ Count("apply_frame_degradation") = Len(imgs)
    /\ (InV1Call /\ Returned) =>
        /\ Count("apply_frame_degradation") = Len(imgs)
        /\ Ran(TranscodeOps) = params.should_add_video_compression
    /\ (InV2Call /\ Ran(FrameOps)) => Ran(TranscodeOps)
    /\ (InV2Call /\ Returned) =>
        /\ Ran(TranscodeOps)
        /\ Count("apply_frame_degradation_v2") = Len(imgs_lq)

\* a v2 call that returned two degraded frames with should_add_video_compression unset
C8_Witness ==
    /\ InV2Call /\ Returned
    /\ ~params.should_add_video_compression
    /\ Count("transcode") = 1
    /\ Count("apply_frame_degradation_v2") = 2
    /\ Count("blur") = 2

AllFlagsFalse ==
    /\ params.version = 1
    /\ ~params.should_down_sample /\ ~params.should_add_noise
    /\ ~params.should_add_jpeg_compression /\ ~params.should_add_video_compression
    /\ ~params.should_add_blur

\* C9: with all five v1 flags false no primitive and no transcode runs, and every
\* output frame is the input frame, pixel value for pixel value.
C9_IdentityPipeline ==
    AllFlagsFalse =>
        /\ \A i \in 1..Len(log) : log[i].op = "apply_frame_degradation"
        /\ encoder = NoEncoder
        /\ \A i \in 1..Len(imgs_lq) : imgs_lq[i] = imgs[i]
        /\ Returned => result = Some(imgs)

\* the identity pipeline returned two frames holding every pixel value 0..255
C9_Witness ==
    /\ AllFlagsFalse /\ Returned
    /\ Len(result[1]) = 2
    /\ DOMAIN result[1][2].pix = 0..255
    /\ result[1][2].pix[255] = 255

\* C10: from one seeded generator state, the constructor makes the same number
\* of draws from each generator and samples the same scale, sigma, jpeg_quality,
\* video_codec and video_bitrate, whatever toggles are requested.
C10_TogglesDoNotShiftTheStreams ==
    (sampled.ctor = "v1" /\ seed # NoSeed) =>
        \A req \in Toggles :
            LET other == V1Init(req, TRUE, seed.random, seed.numpy) IN
            /\ other.n_random = Len(sampled.random_draws)
            /\ other.n_numpy = Len(sampled.numpy_draws)
            /\ other.obj.scale = params.scale
            /\ other.obj.sigma = params.sigma
            /\ other.obj.jpeg_quality = params.jpeg_quality
            /\ other.obj.video_codec = params.video_codec
            /\ other.obj.video_bitrate = params.video_bitrate

====
